---- MODULE Spec2Model ----
(***************************************************************************)
(* webhook-gateway: configuration binding, Service.Init / Gateway.Init     *)
(* start-up ordering, the HTTP transport and the per-request handler.      *)
(*                                                                         *)
(* Strings are sequences of one-character strings, so that "/" + secret    *)
(* and the method prefix of a ServeMux pattern are computed, not assumed.  *)
(* Errors are sequences of messages, outermost wrapper first; the nil      *)
(* error is the empty sequence.                                            *)
(***************************************************************************)
EXTENDS Integers, Sequences, FiniteSets, TLC

\* ------------------------------------------------------------------ bounds
MaxGateways == 2
MaxRequests == 1
MaxMsgs == 2
MaxDepth == 4
MaxCalls == 3

\* ----------------------------------------------------------------- strings
Empty == <<>>
Slash == <<"/">>
PathA == <<"/", "a">>
PostA == <<"P", "O", "S", "T", " ", "/", "a">>
SecretA == <<"a">>
ForeignSecret == <<"z">>

\* The values a gateway entry's path and secret keys are drawn from.
Paths == {Empty, PathA, PostA}
Secrets == {Empty, SecretA}

\* A missing section / a nil interface value.
None == "none"

\* The values of source.type and destination.type in a gateway entry
\* (None: the entry has no such section).
SourceTypes == {None, "grafana", "unknown-vendor"}
DestinationTypes == {None, "xmpp", "unknown-vendor"}

\* Message contents a source can produce.
Contents == {"x", "y"}

\* ------------------------------------------------------------------ errors
Nil == <<>>
Errorf(msg) == <<msg>>
Wrap(msg, err) == <<msg>> \o err

\* ----------------------------------------------------------------- context
\* A context is the chain of values attached to it, oldest first.
secretKey == 0
Background == <<>>

SetSecret_Outermost(ctx, secret) == <<[key |-> secretKey, val |-> secret]>> \o ctx

SetSecret(ctx, secret) == Append(ctx, [key |-> secretKey, val |-> secret])

\* Context.Value: the value set last under the key; ok is FALSE (a nil
\* interface value) when the chain holds none.
RECURSIVE Value(_, _)
Value(ctx, key) ==
    IF ctx = <<>> THEN [ok |-> FALSE, val |-> Empty]
    ELSE IF ctx[Len(ctx)].key = key THEN [ok |-> TRUE, val |-> ctx[Len(ctx)].val]
    ELSE Value(SubSeq(ctx, 1, Len(ctx) - 1), key)

GetSecret(ctx) ==
    LET v == Value(ctx, secretKey)
    IN  IF v.ok THEN v.val ELSE Empty

\* ---------------------------------------------------------------- registry
RegisterSource_KeepFirst(known, name, src) ==
    [n \in DOMAIN known \cup {name} |-> IF n \in DOMAIN known THEN known[n] ELSE src]

RegisterSource(known, name, src) ==
    [n \in DOMAIN known \cup {name} |-> IF n = name THEN src ELSE known[n]]

RegisterDestination(known, name, dest) ==
    [n \in DOMAIN known \cup {name} |-> IF n = name THEN dest ELSE known[n]]

\* ------------------------------------------------------- adapter contracts
\* The errors an adapter's Init can return, by the Source and Destination
\* interfaces: nil, or an error of the adapter's own.
SourceInitErrs(src) == {Nil, Errorf("source init error")}

DestinationInitErrs(dest) == {Nil, Errorf("destination init error")}

\* ----------------------------------------------------------------- gateway
NewGateway == [path |-> Empty, secret |-> Empty, source |-> None, destination |-> None]

ErrNoPathOrSecret == Errorf("no path or secret found in gateway configuration")
ErrNoSource == Errorf("no source configuration found")
ErrNoDestination == Errorf("no destination configuration found")

SrcInit(err) == [op |-> "Source.Init", err |-> err]
DstInit(err) == [op |-> "Destination.Init", err |-> err]

\* A gateway whose secret always decides its path.
ResolvePath_SecretFirst(g) ==
    IF g.secret # Empty THEN [g EXCEPT !.path = Slash \o g.secret] ELSE g

\* The fallback of Gateway.Init for an empty path: "/" + secret.
ResolvePath(g) ==
    IF g.path = Empty THEN [g EXCEPT !.path = Slash \o g.secret] ELSE g

\* The destination initialised before the source.
GatewayInitAdapters_DestFirst(g, srcErr, dstErr) ==
    IF g.destination = None
    THEN [g |-> g, calls |-> <<>>, err |-> ErrNoDestination]
    ELSE IF dstErr # Nil
    THEN [g |-> g, calls |-> <<DstInit(dstErr)>>,
          err |-> Wrap("failed initializing destination", dstErr)]
    ELSE IF g.source = None
    THEN [g |-> g, calls |-> <<DstInit(dstErr)>>, err |-> ErrNoSource]
    ELSE IF srcErr # Nil
    THEN [g |-> g, calls |-> <<DstInit(dstErr), SrcInit(srcErr)>>,
          err |-> Wrap("failed initializing source", srcErr)]
    ELSE [g |-> g, calls |-> <<DstInit(dstErr), SrcInit(srcErr)>>, err |-> Nil]

\* Both adapters checked for nil before either is initialised.
GatewayInitAdapters_ChecksFirst(g, srcErr, dstErr) ==
    IF g.source = None
    THEN [g |-> g, calls |-> <<>>, err |-> ErrNoSource]
    ELSE IF g.destination = None
    THEN [g |-> g, calls |-> <<>>, err |-> ErrNoDestination]
    ELSE IF srcErr # Nil
    THEN [g |-> g, calls |-> <<SrcInit(srcErr)>>,
          err |-> Wrap("failed initializing source", srcErr)]
    ELSE IF dstErr # Nil
    THEN [g |-> g, calls |-> <<SrcInit(srcErr), DstInit(dstErr)>>,
          err |-> Wrap("failed initializing destination", dstErr)]
    ELSE [g |-> g, calls |-> <<SrcInit(srcErr), DstInit(dstErr)>>, err |-> Nil]

\* A Gateway.Init that takes an unset destination for one that needs no Init.
GatewayInitAdapters_NoDestinationCheck(g, srcErr, dstErr) ==
    IF g.source = None
    THEN [g |-> g, calls |-> <<>>, err |-> ErrNoSource]
    ELSE IF srcErr # Nil
    THEN [g |-> g, calls |-> <<SrcInit(srcErr)>>,
          err |-> Wrap("failed initializing source", srcErr)]
    ELSE IF g.destination = None
    THEN [g |-> g, calls |-> <<SrcInit(srcErr)>>, err |-> Nil]
    ELSE IF dstErr # Nil
    THEN [g |-> g, calls |-> <<SrcInit(srcErr), DstInit(dstErr)>>,
          err |-> Wrap("failed initializing destination", dstErr)]
    ELSE [g |-> g, calls |-> <<SrcInit(srcErr), DstInit(dstErr)>>, err |-> Nil]

\* The second half of Gateway.Init: the source is checked and initialised,
\* then the destination. srcErr and dstErr are what the adapters' Init
\* return when called; calls lists the adapter calls made, in order.
GatewayInitAdapters(g, srcErr, dstErr) ==
    IF g.source = None
    THEN [g |-> g, calls |-> <<>>, err |-> ErrNoSource]
    ELSE IF srcErr # Nil
    THEN [g |-> g, calls |-> <<SrcInit(srcErr)>>,
          err |-> Wrap("failed initializing source", srcErr)]
    ELSE IF g.destination = None
    THEN [g |-> g, calls |-> <<SrcInit(srcErr)>>, err |-> ErrNoDestination]
    ELSE IF dstErr # Nil
    THEN [g |-> g, calls |-> <<SrcInit(srcErr), DstInit(dstErr)>>,
          err |-> Wrap("failed initializing destination", dstErr)]
    ELSE [g |-> g, calls |-> <<SrcInit(srcErr), DstInit(dstErr)>>, err |-> Nil]

\* Gateway.Init without its check of the path and secret.
GatewayInit_NoPathCheck(g, srcErr, dstErr) ==
    GatewayInitAdapters(ResolvePath(g), srcErr, dstErr)

\* Gateway.Init on gateway g. The result carries the gateway after the call,
\* the error returned and the adapter calls made.
GatewayInit(g, srcErr, dstErr) ==
    IF g.path = Empty /\ g.secret = Empty
    THEN [g |-> g, calls |-> <<>>, err |-> ErrNoPathOrSecret]
    ELSE GatewayInitAdapters(ResolvePath(g), srcErr, dstErr)

\* The path half of Gateway.HandleHTTP's result.
HandleHTTPPath(g) == g.path

\* Gateway.UnmarshalTOML on a fresh gateway, for one entry of the gateway
\* array: [path, secret, source, destination], the last two being the type
\* names (None when the section is missing).
ErrUnknownSource_Unnamed(name) == <<"unknown source type">>

ErrUnknownSource(name) == <<"unknown source type", name>>

ErrUnknownDestination(name) == <<"unknown destination type", name>>

\* made lists the constructors the binding has called, in order.
GatewayUnmarshalTOML(g, entry, sources, destinations) ==
    LET g1 == [g EXCEPT !.secret = entry.secret, !.path = entry.path]
    IN  IF entry.source # None /\ entry.source \notin DOMAIN sources
        THEN [g |-> g1, err |-> ErrUnknownSource(entry.source), made |-> <<>>]
        ELSE
        LET g2 == IF entry.source # None
                  THEN [g1 EXCEPT !.source = sources[entry.source]] ELSE g1
            m2 == IF entry.source # None THEN <<"NewSource">> ELSE <<>>
        IN  IF entry.destination # None /\ entry.destination \notin DOMAIN destinations
            THEN [g |-> g2, err |-> ErrUnknownDestination(entry.destination),
                  made |-> m2]
            ELSE IF entry.destination # None
            THEN [g |-> [g2 EXCEPT !.destination = destinations[entry.destination]],
                  err |-> Nil, made |-> Append(m2, "NewDestination")]
            ELSE [g |-> g2, err |-> Nil, made |-> m2]

\* ---------------------------------------------------------------- ServeMux
\* Who a handler belongs to: the health check, or the gateway at a position
\* of Service.gateway; NoOwner where there is none.
Health == <<"health">>
Gw(i) == <<"gateway", i>>
NoOwner == <<>>

\* Index of the first occurrence of character c in s, 0 when there is none.
IndexOf(s, c) ==
    IF \E i \in 1..Len(s) : s[i] = c
    THEN CHOOSE i \in 1..Len(s) : s[i] = c /\ \A j \in 1..(i - 1) : s[j] # c
    ELSE 0

\* A ServeMux pattern "[METHOD ]PATH" split into its method and path; ok is
\* FALSE where the mux rejects the pattern (empty, or no "/" after the method).
ParsePattern(s) ==
    LET sp == IndexOf(s, " ")
        method == IF sp = 0 THEN Empty ELSE SubSeq(s, 1, sp - 1)
        rest == IF sp = 0 THEN s ELSE SubSeq(s, sp + 1, Len(s))
    IN  [method |-> method, path |-> rest,
         ok |-> s # Empty /\ rest # Empty /\ rest[1] = "/"]

\* A mux that takes every pattern it can parse.
Conflicts_Never(p, q) == FALSE

\* Two literal patterns conflict when they match the same requests: same
\* method (or both none) and same path. A pattern with a method is more
\* specific than the same path without one, which the mux accepts.
Conflicts(p, q) ==
    /\ ParsePattern(p).method = ParsePattern(q).method
    /\ ParsePattern(p).path = ParsePattern(q).path

\* The value a call panicked with ("none": it returned).
NoPanic == [kind |-> "none", msg |-> ""]
PanicError(msg) == [kind |-> "error", msg |-> msg]

\* ServeMux.HandleFunc: panics, with an error value, on a pattern it
\* rejects or that conflicts with a registered one, and then leaves the mux
\* as it was.
HandleFunc(m, pattern, owner) ==
    IF ~ParsePattern(pattern).ok
    THEN [mux |-> m, panic |-> PanicError("invalid pattern")]
    ELSE IF \E k \in 1..Len(m) : Conflicts(m[k].pattern, pattern)
    THEN [mux |-> m, panic |-> PanicError("pattern conflicts")]
    ELSE [mux |-> Append(m, [pattern |-> pattern, owner |-> owner]),
          panic |-> NoPanic]

\* A recover that only knows panics with a string.
Recover_StringsOnly(v) ==
    IF v.kind = "string" THEN Errorf(v.msg) ELSE Nil

\* The deferred function of HTTP.Handle: the error it leaves in the named
\* result for the value recover() returned.
Recover(v) ==
    IF v.kind = "none" THEN Nil
    ELSE IF v.kind = "string" THEN Errorf(v.msg)
    ELSE IF v.kind = "error" THEN Errorf(v.msg)
    ELSE Errorf("unknown error in setting up HTTP handler")

\* A registration that replaces the handler of a conflicting pattern.
HTTPHandle_Replace(m, pattern, owner) ==
    IF ~ParsePattern(pattern).ok
    THEN [mux |-> m, err |-> Errorf("invalid pattern")]
    ELSE IF \E k \in 1..Len(m) : Conflicts(m[k].pattern, pattern)
    THEN [mux |-> [k \in 1..Len(m) |->
                     IF Conflicts(m[k].pattern, pattern)
                     THEN [pattern |-> pattern, owner |-> owner] ELSE m[k]],
          err |-> Nil]
    ELSE [mux |-> Append(m, [pattern |-> pattern, owner |-> owner]), err |-> Nil]

\* HTTP.Handle: HandleFunc under the deferred recover, which turns a panic
\* into the returned error.
HTTPHandle(m, pattern, owner) ==
    LET res == HandleFunc(m, pattern, owner)
    IN  [mux |-> res.mux, err |-> Recover(res.panic)]

\* A mux that hands a request to the first registered pattern matching it.
Dispatch_FirstRegistered(m, method, path) ==
    LET hit == {k \in 1..Len(m) : ParsePattern(m[k].pattern).path = path
                                  /\ ParsePattern(m[k].pattern).method
                                        \in {Empty, method}}
    IN  IF hit # {} THEN m[CHOOSE k \in hit : \A j \in hit : k <= j].owner
        ELSE NoOwner

\* The handler the mux picks for a request: the registered pattern with the
\* request's path whose method is the request's, else the one without a
\* method, else none.
Dispatch(m, method, path) ==
    LET exact == {k \in 1..Len(m) : ParsePattern(m[k].pattern).path = path
                                    /\ ParsePattern(m[k].pattern).method = method}
        any == {k \in 1..Len(m) : ParsePattern(m[k].pattern).path = path
                                  /\ ParsePattern(m[k].pattern).method = Empty}
    IN  IF exact # {} THEN m[CHOOSE k \in exact : TRUE].owner
        ELSE IF any # {} THEN m[CHOOSE k \in any : TRUE].owner
        ELSE NoOwner

HealthPattern_GetOnly == <<"G", "E", "T", " ", "/", "_", "h", "e", "a", "l", "t", "h">>

\* Service.handleHealth's pattern.
HealthPattern == <<"/", "_", "h", "e", "a", "l", "t", "h">>


\* ------------------------------------------------------------------- state
VARIABLES
    pc,                 \* position of main / Service.Init
    knownSources,       \* registry: source type name -> constructor
    knownDestinations,  \* registry: destination type name -> constructor
    handler,            \* Service.handler is set
    gateway,            \* Service.gateway: the Gateway objects, in order
    conf,               \* the gateway entries of the configuration, as decoded
    idx,                \* Service.Init's loop position in Service.gateway
    mux,                \* the ServeMux: registered patterns, in order
    mainErr,            \* the error main logs before os.Exit(1)
    calls,              \* collaborator calls made so far, in order
    listener,           \* the TCP listener of HTTP.Init
    wait,               \* HTTP.Init's channel (capacity 1)
    srvpc,              \* position of the goroutine running Server.Serve
    ctxDone,            \* the signal context of main is cancelled
    reqs,               \* the requests, by slot
    chain,              \* a context.Context under derivation (package gateway alone)
    secretSet,          \* SetSecret was called on chain or on an ancestor of it
    request,            \* the request given to a source adapter's ParseHTTP
    result,             \* what that ParseHTTP returned
    registrations,      \* the RegisterSource / RegisterDestination calls so far
    xmpp,               \* an XMPP destination: its configuration and its session
    stream,             \* the stanzas written to that session, in order
    push,               \* the PushMessages calls on that destination, by caller
    handled             \* the calls of HTTP.Handle on a transport alone, in order

\* The state of the running program, and the state of the specifications
\* that exercise one package on its own.
progVars == <<pc, knownSources, knownDestinations, handler, gateway, conf, idx, mux,
              mainErr, calls, listener, wait, srvpc, ctxDone, reqs>>
packageVars == <<chain, secretSet, request, result, registrations>>
xmppVars == <<xmpp, stream, push>>
httpVars == <<handled>>
unitVars == <<chain, secretSet, request, result, registrations, xmpp, stream, push,
              handled>>

vars == <<pc, knownSources, knownDestinations, handler, gateway, conf, idx, mux,
          mainErr, calls, listener, wait, srvpc, ctxDone, reqs,
          chain, secretSet, request, result, registrations, xmpp, stream, push,
          handled>>

Slots == 1..MaxRequests
\* make(chan error, 1) in HTTP.Init.
waitCap == 1

\* make(chan error): without a buffer a send completes only while HTTP.Init
\* is at its receive.
CanSend_Unbuffered(w) == w = <<>> /\ pc = "init_wait"

\* A send on the channel holding w completes when the buffer has room.
CanSend(w) == Len(w) < waitCap

IdleReq == [pc |-> "idle", method |-> Empty, path |-> Empty, parsedBy |-> 0,
            pushedBy |-> 0, owner |-> NoOwner, ctx |-> Background, parseCtx |-> Background,
            pushCtx |-> Background, msg |-> <<>>, perr |-> Nil, pushed |-> <<>>,
            pusherr |-> Nil, nparse |-> 0, npush |-> 0, status |-> 0,
            body |-> Empty]

ProgInit ==
    /\ pc = "pkginit"
    /\ knownSources = << >>
    /\ knownDestinations = << >>
    /\ handler = FALSE
    /\ gateway = <<>>
    /\ conf = <<>>
    /\ idx = 0
    /\ mux = <<>>
    /\ mainErr = Nil
    /\ calls = <<>>
    /\ listener = "none"
    /\ wait = <<>>
    /\ srvpc = "none"
    /\ ctxDone = FALSE
    /\ reqs = [r \in Slots |-> IdleReq]

UnitInit ==
    /\ chain = Background
    /\ secretSet = FALSE
    /\ request = None
    /\ result = None
    /\ registrations = <<>>
    /\ xmpp = None
    /\ stream = <<>>
    /\ push = <<>>
    /\ handled = <<>>

Init == ProgInit /\ UnitInit

Alive == pc \notin {"exit", "stopped"}

Call(op, i, err) == [op |-> op, gw |-> i, err |-> err]

\* ------------------------------------------------------------ configuration
\* The init functions of the adapter packages main links in.
PackageInit ==
    /\ pc = "pkginit"
    /\ knownSources' = RegisterSource(
            RegisterSource(knownSources, "cloudflare-notifications",
                           "cloudflare-notifications"),
            "grafana", "grafana")
    /\ knownDestinations' = RegisterDestination(knownDestinations, "xmpp", "xmpp")
    /\ pc' = "decode_http"
    /\ UNCHANGED <<handler, gateway, conf, idx, mux, mainErr, calls, listener, wait,
                   srvpc, ctxDone, reqs>>
    /\ UNCHANGED unitVars

\* service.New, then the http section of Service.UnmarshalTOML: the handler
\* is set only when the configuration has an http section.
UnmarshalHTTP ==
    /\ pc = "decode_http"
    /\ \E hasHTTP \in BOOLEAN : handler' = hasHTTP
    /\ pc' = "decode_gw"
    /\ UNCHANGED <<knownSources, knownDestinations, gateway, conf, idx, mux, mainErr,
                   calls, listener, wait, srvpc, ctxDone, reqs>>
    /\ UNCHANGED unitVars

Entries == [path : Paths, secret : Secrets, source : SourceTypes,
            destination : DestinationTypes]

\* One turn of the gateway loop of Service.UnmarshalTOML.
UnmarshalGateway ==
    /\ pc = "decode_gw"
    /\ Len(gateway) < MaxGateways
    /\ \E entry \in Entries :
         LET res == GatewayUnmarshalTOML(NewGateway, entry, knownSources,
                                         knownDestinations)
         IN  /\ conf' = Append(conf, entry)
             /\ calls' = calls \o [k \in 1..Len(res.made) |->
                                     Call(res.made[k], Gw(Len(gateway) + 1), Nil)]
             /\ IF res.err # Nil
                THEN /\ mainErr' = Wrap("Failed to load TOML configuration",
                                        Wrap("failed parsing gateway configuration",
                                             res.err))
                     /\ pc' = "exit"
                     /\ UNCHANGED gateway
                ELSE /\ gateway' = Append(gateway, res.g)
                     /\ UNCHANGED <<pc, mainErr>>
    /\ UNCHANGED <<knownSources, knownDestinations, handler, idx, mux,
                   listener, wait, srvpc, ctxDone, reqs>>
    /\ UNCHANGED unitVars

\* The gateway array is exhausted: toml.DecodeFile returns nil.
UnmarshalDone ==
    /\ pc = "decode_gw"
    /\ pc' = "init"
    /\ UNCHANGED <<knownSources, knownDestinations, handler, gateway, conf, idx, mux,
                   mainErr, calls, listener, wait, srvpc, ctxDone, reqs>>
    /\ UNCHANGED unitVars

\* ------------------------------------------------------------ Service.Init
\* main's handling of a non-nil error from Service.Init.
InitFails(err) ==
    /\ mainErr' = Wrap("Failed to initialize service", err)
    /\ pc' = "exit"

\* A loop that leaves after its first turn.
AfterHandle_FirstOnly(i, n) == "init_transport"

\* Where Service.Init goes after registering the handler of gateway i of n
\* (i = 0: the health handler): to the next gateway of the range loop, or
\* past the loop to the transport.
AfterHandle(i, n) == IF i < n THEN "init_gw" ELSE "init_transport"

ErrNoHandler == Errorf("no request handler configuration found")
ErrNoGateway == Errorf("no gateway configuration found")

\* The checks without the one on the gateway list.
ServiceInitCheck_HandlerOnly(h, gws) == IF ~h THEN ErrNoHandler ELSE Nil

\* The configuration checks Service.Init starts with.
ServiceInitCheck(h, gws) ==
    IF ~h THEN ErrNoHandler
    ELSE IF Len(gws) = 0 THEN ErrNoGateway
    ELSE Nil

\* The configuration checks of Service.Init and the registration of the
\* health-check handler.
\* A Service.Init that goes to the gateways without the health endpoint.
ServiceInitBegin_NoHealth ==
    /\ pc = "init"
    /\ IF ServiceInitCheck(handler, gateway) # Nil
       THEN /\ InitFails(ServiceInitCheck(handler, gateway))
            /\ UNCHANGED idx
       ELSE /\ pc' = AfterHandle(0, Len(gateway))
            /\ idx' = 1
            /\ UNCHANGED mainErr
    /\ UNCHANGED <<knownSources, knownDestinations, handler, gateway, conf, mux, calls,
                   listener, wait, srvpc, ctxDone, reqs>>
    /\ UNCHANGED unitVars

ServiceInitBegin ==
    /\ pc = "init"
    /\ IF ServiceInitCheck(handler, gateway) # Nil
       THEN /\ InitFails(ServiceInitCheck(handler, gateway))
            /\ UNCHANGED <<mux, calls, idx>>
       ELSE LET res == HTTPHandle(mux, HealthPattern, Health)
            IN  /\ mux' = res.mux
                /\ calls' = Append(calls, Call("Handle", Health, res.err))
                /\ IF res.err # Nil
                   THEN /\ InitFails(Wrap(
                              "failed setting up request handler for health-checks",
                              res.err))
                        /\ UNCHANGED idx
                   ELSE /\ pc' = AfterHandle(0, Len(gateway))
                        /\ idx' = 1
                        /\ UNCHANGED mainErr
    /\ UNCHANGED <<knownSources, knownDestinations, handler, gateway, conf,
                   listener, wait, srvpc, ctxDone, reqs>>
    /\ UNCHANGED unitVars

\* The loop without its call of g.Init.
ServiceInitGateway_Skip ==
    /\ pc = "init_gw"
    /\ pc' = "init_handle"
    /\ UNCHANGED <<knownSources, knownDestinations, handler, gateway, conf, idx, mux,
                   mainErr, calls, listener, wait, srvpc, ctxDone, reqs>>
    /\ UNCHANGED unitVars

\* The loop going on to the registration whatever g.Init returned.
ServiceInitGateway_Continue ==
    /\ pc = "init_gw"
    /\ \E srcErr \in SourceInitErrs(gateway[idx].source),
          dstErr \in DestinationInitErrs(gateway[idx].destination) :
         LET res == GatewayInit(gateway[idx], srcErr, dstErr)
         IN  /\ gateway' = [gateway EXCEPT ![idx] = res.g]
             /\ calls' = calls \o <<Call("Gateway.Init", Gw(idx), res.err)>>
                               \o [k \in 1..Len(res.calls) |->
                                     Call(res.calls[k].op, Gw(idx), res.calls[k].err)]
             /\ pc' = "init_handle"
    /\ UNCHANGED <<knownSources, knownDestinations, handler, conf, idx, mux, mainErr,
                   listener, wait, srvpc, ctxDone, reqs>>
    /\ UNCHANGED unitVars

\* g.Init(ctx) for the gateway the loop is at.
ServiceInitGateway ==
    /\ pc = "init_gw"
    /\ \E srcErr \in SourceInitErrs(gateway[idx].source),
          dstErr \in DestinationInitErrs(gateway[idx].destination) :
         LET res == GatewayInit(gateway[idx], srcErr, dstErr)
         IN  /\ gateway' = [gateway EXCEPT ![idx] = res.g]
             /\ calls' = calls \o <<Call("Gateway.Init", Gw(idx), res.err)>>
                               \o [k \in 1..Len(res.calls) |->
                                     Call(res.calls[k].op, Gw(idx), res.calls[k].err)]
             /\ IF res.err # Nil
                THEN InitFails(Wrap("failed initializing gateway", res.err))
                ELSE /\ pc' = "init_handle"
                     /\ UNCHANGED mainErr
    /\ UNCHANGED <<knownSources, knownDestinations, handler, conf, idx, mux,
                   listener, wait, srvpc, ctxDone, reqs>>
    /\ UNCHANGED unitVars

\* s.handler.Handle(g.HandleHTTP()) for the gateway the loop is at.
ServiceInitHandle ==
    /\ pc = "init_handle"
    /\ LET res == HTTPHandle(mux, HandleHTTPPath(gateway[idx]), Gw(idx))
       IN  /\ mux' = res.mux
           /\ calls' = Append(calls, Call("Handle", Gw(idx), res.err))
           /\ IF res.err # Nil
              THEN /\ InitFails(Wrap("failed setting up request handler for gateway",
                                     res.err))
                   /\ UNCHANGED idx
              ELSE /\ idx' = idx + 1
                   /\ pc' = AfterHandle(idx, Len(gateway))
                   /\ UNCHANGED mainErr
    /\ UNCHANGED <<knownSources, knownDestinations, handler, gateway, conf,
                   listener, wait, srvpc, ctxDone, reqs>>
    /\ UNCHANGED unitVars

\* --------------------------------------------------------------- HTTP.Init
\* net.Listen, and the start of the goroutine that runs Server.Serve.
HTTPInitListen ==
    /\ pc = "init_transport"
    /\ calls' = Append(calls, Call("Handler.Init", NoOwner, Nil))
    /\ \E ok \in BOOLEAN :
         IF ok
         THEN /\ listener' = "bound"
              /\ srvpc' = "start"
              /\ pc' = "init_wait"
              /\ UNCHANGED mainErr
         ELSE /\ InitFails(Wrap("failed initializing request handler",
                                Errorf("listen error")))
              /\ UNCHANGED <<listener, srvpc>>
    /\ UNCHANGED <<knownSources, knownDestinations, handler, gateway, conf, idx, mux,
                   wait, ctxDone, reqs>>
    /\ UNCHANGED unitVars

\* Serve calls BaseContext, which sends nil on the channel, and enters its
\* accept loop.
ServeBaseContext ==
    /\ Alive
    /\ srvpc = "start"
    /\ CanSend(wait)
    /\ wait' = Append(wait, Nil)
    /\ srvpc' = "accepting"
    /\ UNCHANGED <<pc, knownSources, knownDestinations, handler, gateway, conf, idx,
                   mux, mainErr, calls, listener, ctxDone, reqs>>
    /\ UNCHANGED unitVars

\* Serve returns an error: before it called BaseContext, or out of its
\* accept loop. The listener is closed on the way out.
ServeReturns ==
    /\ Alive
    /\ srvpc \in {"start", "accepting"}
    /\ srvpc' = "returned"
    /\ listener' = "closed"
    /\ UNCHANGED <<pc, knownSources, knownDestinations, handler, gateway, conf, idx,
                   mux, mainErr, calls, wait, ctxDone, reqs>>
    /\ UNCHANGED unitVars

\* The goroutine sends Serve's error on the channel and ends.
ServeSendErr ==
    /\ Alive
    /\ srvpc = "returned"
    /\ CanSend(wait)
    /\ wait' = Append(wait, Errorf("serve error"))
    /\ srvpc' = "done"
    /\ UNCHANGED <<pc, knownSources, knownDestinations, handler, gateway, conf, idx,
                   mux, mainErr, calls, listener, ctxDone, reqs>>
    /\ UNCHANGED unitVars

\* An Init that returns nil without waiting for the server goroutine.
HTTPInitRecv_NoWait ==
    /\ pc = "init_wait"
    /\ pc' = "serving"
    /\ UNCHANGED <<knownSources, knownDestinations, handler, gateway, conf, idx, mux,
                   mainErr, calls, listener, wait, srvpc, ctxDone, reqs>>
    /\ UNCHANGED unitVars

\* HTTP.Init receives from the channel and returns what it received;
\* Service.Init wraps a non-nil error, main exits on it.
HTTPInitRecv ==
    /\ pc = "init_wait"
    /\ wait # <<>>
    /\ wait' = Tail(wait)
    /\ IF Head(wait) # Nil
       THEN InitFails(Wrap("failed initializing request handler", Head(wait)))
       ELSE /\ pc' = "serving"
            /\ UNCHANGED mainErr
    /\ UNCHANGED <<knownSources, knownDestinations, handler, gateway, conf, idx, mux,
                   calls, listener, srvpc, ctxDone, reqs>>
    /\ UNCHANGED unitVars

\* ------------------------------------------------------------------ signals
\* An interrupt cancels main's context. Only main's final receive reads the
\* context, so a signal that arrives during start-up is taken here.
Signal ==
    /\ pc = "serving"
    /\ ~ctxDone
    /\ ctxDone' = TRUE
    /\ UNCHANGED <<pc, knownSources, knownDestinations, handler, gateway, conf, idx,
                   mux, mainErr, calls, listener, wait, srvpc, reqs>>
    /\ UNCHANGED unitVars

\* main returns from <-ctx.Done(): the process ends.
MainReturns ==
    /\ pc = "serving"
    /\ ctxDone
    /\ pc' = "stopped"
    /\ UNCHANGED <<knownSources, knownDestinations, handler, gateway, conf, idx, mux,
                   mainErr, calls, listener, wait, srvpc, ctxDone, reqs>>
    /\ UNCHANGED unitVars

\* ---------------------------------------------------------------- requests
GET == <<"G", "E", "T">>
POST == <<"P", "O", "S", "T">>
Methods == {GET, POST}
RequestPaths == {PathA, HealthPattern}

\* The contexts a request reaches a handler with: the base context, or one
\* on which a caller has already set a secret.
IncomingContexts == {Background, SetSecret(Background, ForeignSecret)}

StatusOK == 200
StatusBadRequest == 400
StatusNotFound == 404

\* Sequences of at most n messages; the handler never looks into a
\* Message, so neighbours only need contents that differ.
MsgSeqs(n) == {[i \in 1..k |-> IF i % 2 = 1 THEN "x" ELSE "y"] : k \in 0..n}

\* What a Source's ParseHTTP can return: an error (with or without
\* messages beside it), or messages, possibly none, and no error.
ParseResults ==
    {[msg |-> <<>>, err |-> Errorf("parse error")],
     [msg |-> <<"x">>, err |-> Errorf("parse error")]}
        \cup {[msg |-> m, err |-> Nil] : m \in MsgSeqs(MaxMsgs)}

\* What a Destination's PushMessages can return.
PushResults == {Nil, Errorf("push error")}

\* A handler that keeps a secret the incoming context already carries.
RequestContext_KeepIncoming(g, ctx) ==
    IF Value(ctx, secretKey).ok THEN ctx ELSE SetSecret(ctx, g.secret)

\* The context the handler of gateway g gives the request.
RequestContext(g, ctx) == SetSecret(ctx, g.secret)

\* The handler's test on ParseHTTP's result.
ParseFailed_EmptyOnly(res) == Len(res.msg) = 0

ParseFailed_ErrOnly(res) == res.err # Nil

ParseFailed(res) == res.err # Nil \/ Len(res.msg) = 0

\* The messages the handler hands to PushMessages: msg..., all of them.
PushArgs_Reversed(msg) == [i \in 1..Len(msg) |-> msg[Len(msg) + 1 - i]]

PushArgs(msg) == msg

\* The status of the response once PushMessages has returned: 400 written
\* by http.Error on an error, else the 200 of a handler that wrote nothing.
PushStatus_AlwaysOK(err) == StatusOK

PushStatus_Created(err) == IF err # Nil THEN StatusBadRequest ELSE 201

PushStatus(err) == IF err # Nil THEN StatusBadRequest ELSE StatusOK

\* The server accepts a request and the mux routes it; a request no
\* pattern matches is answered by the mux itself. Slots fill in order.
Arrive(r) ==
    /\ Alive
    /\ srvpc = "accepting"
    /\ reqs[r].pc = "idle"
    /\ IF r = 1 THEN TRUE ELSE reqs[r - 1].pc # "idle"
    /\ \E method \in Methods, path \in RequestPaths, ctx \in IncomingContexts :
         LET owner == Dispatch(mux, method, path)
         IN  reqs' = [reqs EXCEPT ![r] =
                        IF owner = NoOwner
                        THEN [@ EXCEPT !.pc = "done", !.ctx = ctx,
                                       !.method = method, !.path = path,
                                       !.status = StatusNotFound,
                                       !.body = <<"404 page not found">>]
                        ELSE [@ EXCEPT !.pc = "dispatched", !.owner = owner,
                                       !.method = method, !.path = path,
                                       !.ctx = ctx]]
    /\ UNCHANGED <<pc, knownSources, knownDestinations, handler, gateway, conf, idx,
                   mux, mainErr, calls, listener, wait, srvpc, ctxDone>>
    /\ UNCHANGED unitVars

\* The health handler.
HandleHealth(r) ==
    /\ Alive
    /\ reqs[r].pc = "dispatched"
    /\ reqs[r].owner = Health
    /\ reqs' = [reqs EXCEPT ![r].pc = "done", ![r].status = StatusOK]
    /\ UNCHANGED <<pc, knownSources, knownDestinations, handler, gateway, conf, idx,
                   mux, mainErr, calls, listener, wait, srvpc, ctxDone>>
    /\ UNCHANGED unitVars

\* A handler that keeps the secret of the incoming context in its Gateway.
HandleParse_StoresSecret(r) ==
    /\ Alive
    /\ reqs[r].pc = "dispatched"
    /\ reqs[r].owner # Health
    /\ LET g == gateway[reqs[r].owner[2]]
           ctx == RequestContext(g, reqs[r].ctx)
       IN  \E res \in ParseResults :
             reqs' = [reqs EXCEPT ![r] =
                        IF ParseFailed(res)
                        THEN [@ EXCEPT !.pc = "done", !.ctx = ctx, !.parseCtx = ctx,
                                       !.msg = res.msg, !.perr = res.err,
                                       !.nparse = @ + 1,
                                       !.parsedBy = reqs[r].owner[2],
                                       !.status = StatusBadRequest,
                                       !.body = Wrap("failed processing incoming request",
                                                     res.err)]
                        ELSE [@ EXCEPT !.pc = "parsed", !.ctx = ctx, !.parseCtx = ctx,
                                       !.msg = res.msg, !.perr = res.err,
                                       !.nparse = @ + 1,
                                       !.parsedBy = reqs[r].owner[2]]]
    /\ gateway' = [gateway EXCEPT ![reqs[r].owner[2]].secret =
                                   GetSecret(reqs[r].ctx)]
    /\ UNCHANGED <<pc, knownSources, knownDestinations, handler, conf, idx,
                   mux, mainErr, calls, listener, wait, srvpc, ctxDone>>
    /\ UNCHANGED unitVars

\* A gateway's handler up to the return of Source.ParseHTTP.
HandleParse(r) ==
    /\ Alive
    /\ reqs[r].pc = "dispatched"
    /\ reqs[r].owner # Health
    /\ LET g == gateway[reqs[r].owner[2]]
           ctx == RequestContext(g, reqs[r].ctx)
       IN  \E res \in ParseResults :
             reqs' = [reqs EXCEPT ![r] =
                        IF ParseFailed(res)
                        THEN [@ EXCEPT !.pc = "done", !.ctx = ctx, !.parseCtx = ctx,
                                       !.msg = res.msg, !.perr = res.err,
                                       !.nparse = @ + 1,
                                       !.parsedBy = reqs[r].owner[2],
                                       !.status = StatusBadRequest,
                                       !.body = Wrap("failed processing incoming request",
                                                     res.err)]
                        ELSE [@ EXCEPT !.pc = "parsed", !.ctx = ctx, !.parseCtx = ctx,
                                       !.msg = res.msg, !.perr = res.err,
                                       !.nparse = @ + 1,
                                       !.parsedBy = reqs[r].owner[2]]]
    /\ UNCHANGED <<pc, knownSources, knownDestinations, handler, gateway, conf, idx,
                   mux, mainErr, calls, listener, wait, srvpc, ctxDone>>
    /\ UNCHANGED unitVars

\* The rest of a gateway's handler: Destination.PushMessages and the response.
HandlePush(r) ==
    /\ Alive
    /\ reqs[r].pc = "parsed"
    /\ \E err \in PushResults :
         reqs' = [reqs EXCEPT ![r] =
                    [@ EXCEPT !.pc = "done", !.pushCtx = reqs[r].ctx,
                              !.pushed = PushArgs(reqs[r].msg), !.npush = @ + 1,
                              !.pushedBy = reqs[r].owner[2],
                              !.pusherr = err, !.status = PushStatus(err),
                              !.body = IF err = Nil THEN Empty
                                       ELSE Wrap("failed pushing notification messages",
                                                 err)]]
    /\ UNCHANGED <<pc, knownSources, knownDestinations, handler, gateway, conf, idx,
                   mux, mainErr, calls, listener, wait, srvpc, ctxDone>>
    /\ UNCHANGED unitVars

\* ----------------------------------------------------------- specification
Next ==
    \/ PackageInit
    \/ UnmarshalHTTP
    \/ UnmarshalGateway
    \/ UnmarshalDone
    \/ ServiceInitBegin
    \/ ServiceInitGateway
    \/ ServiceInitHandle
    \/ HTTPInitListen
    \/ ServeBaseContext
    \/ ServeReturns
    \/ ServeSendErr
    \/ HTTPInitRecv
    \/ Signal
    \/ MainReturns
    \/ \E r \in Slots : Arrive(r)
    \/ \E r \in Slots : HandleHealth(r)
    \/ \E r \in Slots : HandleParse(r)
    \/ \E r \in Slots : HandlePush(r)

Spec == Init /\ [][Next]_vars

\* ---------------------------------------------------- contexts on their own
\* Contexts as their users derive them: SetSecret by the gateway's handler,
\* context.WithValue under keys of their own by everyone else (net/http
\* stores the server and the local address in each request's context).
\* A key of another package is of a type other than contextKey, so it is
\* never equal to secretKey, whatever its value.
foreignKey == secretKey + 1

ChainSecrets == {Empty, SecretA, ForeignSecret}

DeriveSecret ==
    /\ Len(chain) < MaxDepth
    /\ \E s \in ChainSecrets : chain' = SetSecret(chain, s)
    /\ secretSet' = TRUE
    /\ UNCHANGED <<request, result, registrations>>
    /\ UNCHANGED progVars
    /\ UNCHANGED xmppVars
    /\ UNCHANGED httpVars

DeriveForeign ==
    /\ Len(chain) < MaxDepth
    /\ chain' = Append(chain, [key |-> foreignKey, val |-> SecretA])
    /\ UNCHANGED <<secretSet, request, result, registrations>>
    /\ UNCHANGED progVars
    /\ UNCHANGED xmppVars
    /\ UNCHANGED httpVars

NextContext == DeriveSecret \/ DeriveForeign

SpecContext == Init /\ [][NextContext]_vars

\* ----------------------------------------------------------- source adapters
\* JSON documents, as encoding/json sees them: bytes that are no JSON text,
\* or a value; an object is its members, by name.
JString(s) == [kind |-> "string", str |-> s]
JNull == [kind |-> "null", str |-> ""]
JNumber == [kind |-> "number", str |-> ""]

NoFields == [k \in {} |-> JNull]

Objects ==
    {NoFields,
     "foo" :> JString("bar"),
     "TEXT" :> JString("x"),
     ("text" :> JString("x")) @@ ("foo" :> JString("bar")),
     ("title" :> JString("Hello")) @@ ("message" :> JString("World"))}
        \cup {"text" :> v : v \in {JNull, JNumber, JString(""), JString("x"), JString("y")}}

Docs ==
    {[kind |-> k, fields |-> NoFields] : k \in {"invalid", "null", "array"}}
        \cup {[kind |-> "object", fields |-> f] : f \in Objects}

\* A request body: reading it fails, or it yields a document.
Bodies ==
    {[ok |-> FALSE, doc |-> [kind |-> "invalid", fields |-> NoFields]]}
        \cup {[ok |-> TRUE, doc |-> d] : d \in Docs}

\* Header.Get: the empty string for a header the request does not carry.
Bearer == <<"B", "e", "a", "r", "e", "r", " ">>
CfAuthValues == {Empty, SecretA, ForeignSecret, SecretA \o SecretA}
AuthorizationValues == {Empty, SecretA, Bearer \o SecretA, Bearer \o ForeignSecret}

SourceContexts ==
    {Background} \cup {SetSecret(Background, s) : s \in {Empty, SecretA, ForeignSecret}}

Requests ==
    [ctx : SourceContexts, cfAuth : CfAuthValues,
     authorization : AuthorizationValues, body : Bodies]

\* encoding/json matches an object's member to a struct field by the
\* field's name, letter case ignored.
FoldKey(k) == IF k = "TEXT" THEN "text" ELSE k

\* json.Unmarshal(buf, &payload) for Payload{Text string `json:"text"`}.
Unmarshal(doc) ==
    LET zero == [Text |-> ""]
        keys == {k \in DOMAIN doc.fields : FoldKey(k) = "text"}
    IN  CASE doc.kind = "invalid" ->
                [payload |-> zero, err |-> Errorf("invalid character")]
          [] doc.kind = "null" -> [payload |-> zero, err |-> Nil]
          [] doc.kind = "array" ->
                [payload |-> zero, err |-> Errorf("cannot unmarshal array")]
          [] OTHER ->
                IF keys = {} THEN [payload |-> zero, err |-> Nil]
                ELSE LET v == doc.fields[CHOOSE k \in keys : TRUE]
                     IN  CASE v.kind = "string" ->
                                 [payload |-> [Text |-> v.str], err |-> Nil]
                           [] v.kind = "null" -> [payload |-> zero, err |-> Nil]
                           [] OTHER ->
                                 [payload |-> zero,
                                  err |-> Errorf("cannot unmarshal number")]

NotificationsAuth_EvenWithoutSecret(secret, h) ==
    IF h = Empty THEN Errorf("cf-webhook-auth header not found")
    ELSE IF h # secret THEN Errorf("invalid authentication token")
    ELSE Nil

NotificationsAuth_AnyToken(secret, h) ==
    IF secret # Empty /\ h = Empty THEN Errorf("cf-webhook-auth header not found")
    ELSE Nil

\* The header check of Notifications.ParseHTTP.
NotificationsAuth(secret, h) ==
    IF secret # Empty
    THEN IF h = Empty THEN Errorf("cf-webhook-auth header not found")
         ELSE IF h # secret THEN Errorf("invalid authentication token")
         ELSE Nil
    ELSE Nil

NotificationsMessages_AllowEmpty(payload) ==
    [msg |-> IF payload.Text # "" THEN <<[Content |-> payload.Text]>> ELSE <<>>,
     err |-> Nil]

\* The messages of a decoded payload.
NotificationsMessages(payload) ==
    IF payload.Text # ""
    THEN [msg |-> <<[Content |-> payload.Text]>>, err |-> Nil]
    ELSE [msg |-> <<>>, err |-> Errorf("no message content found")]

\* Notifications.ParseHTTP; read tells whether it got as far as io.ReadAll.
NotificationsParseHTTP(r) ==
    LET auth == NotificationsAuth(GetSecret(r.ctx), r.cfAuth)
        u == Unmarshal(r.body.doc)
        m == NotificationsMessages(u.payload)
    IN  IF auth # Nil THEN [msg |-> <<>>, err |-> auth, read |-> FALSE]
        ELSE IF ~r.body.ok
        THEN [msg |-> <<>>, read |-> TRUE,
              err |-> Wrap("failed reading request body", Errorf("read error"))]
        ELSE IF u.err # Nil
        THEN [msg |-> <<>>, read |-> TRUE,
              err |-> Wrap("failed parsing request", u.err)]
        ELSE [msg |-> m.msg, err |-> m.err, read |-> TRUE]

\* The Grafana source. Its ParseHTTP is exercised by TestGrafanaParseTemplate:
\* an Authorization header of "Bearer <secret>" is asked for when the context
\* carries a secret, then the body is decoded and, with no template set, the
\* message is the payload's title and message.
GrafanaAuth(secret, h) ==
    IF secret # Empty
    THEN IF h = Empty THEN Errorf("Authorization header not found")
         ELSE IF h # Bearer \o secret THEN Errorf("invalid Bearer token")
         ELSE Nil
    ELSE Nil

GrafanaContent(doc) ==
    LET f == doc.fields
    IN  IF {"title", "message"} \subseteq DOMAIN f
        THEN f["title"].str \o "\n" \o f["message"].str
        ELSE ""

GrafanaParseHTTP(r) ==
    LET auth == GrafanaAuth(GetSecret(r.ctx), r.authorization)
        content == GrafanaContent(r.body.doc)
    IN  IF auth # Nil THEN [msg |-> <<>>, err |-> auth, read |-> FALSE]
        ELSE IF ~r.body.ok
        THEN [msg |-> <<>>, read |-> TRUE,
              err |-> Wrap("failed reading request body", Errorf("read error"))]
        ELSE IF r.body.doc.kind \in {"invalid", "array"}
        THEN [msg |-> <<>>, read |-> TRUE,
              err |-> Wrap("failed parsing request", Errorf("invalid character"))]
        ELSE IF content = ""
        THEN [msg |-> <<>>, read |-> TRUE, err |-> Errorf("no message content found")]
        ELSE [msg |-> <<[Content |-> content]>>, err |-> Nil, read |-> TRUE]

NoResult == [by |-> "none", msg |-> <<>>, err |-> Nil, read |-> FALSE]

\* A request as the gateway's handler hands it to the source of its gateway.
InitSource ==
    /\ ProgInit
    /\ chain = Background
    /\ secretSet = FALSE
    /\ request \in Requests
    /\ result = NoResult
    /\ registrations = <<>>
    /\ xmpp = None
    /\ stream = <<>>
    /\ push = <<>>
    /\ handled = <<>>

ParseCloudflare ==
    /\ result.by = "none"
    /\ result' = [by |-> "cloudflare-notifications"] @@ NotificationsParseHTTP(request)
    /\ UNCHANGED <<chain, secretSet, request, registrations>>
    /\ UNCHANGED progVars
    /\ UNCHANGED xmppVars
    /\ UNCHANGED httpVars

ParseGrafana ==
    /\ result.by = "none"
    /\ result' = [by |-> "grafana"] @@ GrafanaParseHTTP(request)
    /\ UNCHANGED <<chain, secretSet, request, registrations>>
    /\ UNCHANGED progVars
    /\ UNCHANGED xmppVars
    /\ UNCHANGED httpVars

NextSource == ParseCloudflare \/ ParseGrafana

SpecSource == InitSource /\ [][NextSource]_vars

\* -------------------------------------------------- the registry on its own
\* Any sequence of RegisterSource and RegisterDestination calls, as the init
\* functions of linked-in adapter packages make them; the same name may be
\* given to both registries and more than once.
RegistryNames == {"grafana", "xmpp"}
Constructors == {"New", "NewOther"}

CallRegisterSource ==
    /\ Len(registrations) < MaxCalls
    /\ \E name \in RegistryNames, src \in Constructors :
         /\ knownSources' = RegisterSource(knownSources, name, src)
         /\ registrations' =
              Append(registrations, [fn |-> "RegisterSource", name |-> name, ctor |-> src])
    /\ UNCHANGED <<pc, knownDestinations, handler, gateway, conf, idx, mux, mainErr,
                   calls, listener, wait, srvpc, ctxDone, reqs>>
    /\ UNCHANGED <<chain, secretSet, request, result>>
    /\ UNCHANGED xmppVars
    /\ UNCHANGED httpVars

CallRegisterDestination ==
    /\ Len(registrations) < MaxCalls
    /\ \E name \in RegistryNames, dest \in Constructors :
         /\ knownDestinations' = RegisterDestination(knownDestinations, name, dest)
         /\ registrations' =
              Append(registrations,
                     [fn |-> "RegisterDestination", name |-> name, ctor |-> dest])
    /\ UNCHANGED <<pc, knownSources, handler, gateway, conf, idx, mux, mainErr,
                   calls, listener, wait, srvpc, ctxDone, reqs>>
    /\ UNCHANGED <<chain, secretSet, request, result>>
    /\ UNCHANGED xmppVars
    /\ UNCHANGED httpVars

NextRegistry == CallRegisterSource \/ CallRegisterDestination

SpecRegistry == Init /\ [][NextRegistry]_vars

\* ------------------------------------------------- requests side by side
\* The server runs each request's handler on a goroutine of its own.
MaxWorkers == 2
Workers == 1..MaxWorkers

ServingGateways ==
    <<[path |-> PathA, secret |-> SecretA, source |-> "grafana", destination |-> "xmpp"],
      [path |-> PostA, secret |-> Empty, source |-> "grafana", destination |-> "xmpp"]>>

\* The calls main has made when Service.Init returns for ServingGateways.
ServingCalls ==
    <<Call("NewSource", Gw(1), Nil), Call("NewDestination", Gw(1), Nil),
      Call("NewSource", Gw(2), Nil), Call("NewDestination", Gw(2), Nil),
      Call("Handle", Health, Nil),
      Call("Gateway.Init", Gw(1), Nil), Call("Source.Init", Gw(1), Nil),
      Call("Destination.Init", Gw(1), Nil), Call("Handle", Gw(1), Nil),
      Call("Gateway.Init", Gw(2), Nil), Call("Source.Init", Gw(2), Nil),
      Call("Destination.Init", Gw(2), Nil), Call("Handle", Gw(2), Nil),
      Call("Handler.Init", NoOwner, Nil)>>

\* The program after Service.Init has returned nil for two gateways, one at
\* the default path of its source and one at "POST /a": main waits for a
\* signal and the server accepts requests.
ServingInit ==
    /\ pc = "serving"
    /\ knownSources = RegisterSource(
            RegisterSource(<< >>, "cloudflare-notifications",
                           "cloudflare-notifications"),
            "grafana", "grafana")
    /\ knownDestinations = RegisterDestination(<< >>, "xmpp", "xmpp")
    /\ handler = TRUE
    /\ gateway = ServingGateways
    /\ conf = <<[ServingGateways[1] EXCEPT !.path = Empty], ServingGateways[2]>>
    /\ idx = 3
    /\ mux = <<[pattern |-> HealthPattern, owner |-> Health],
               [pattern |-> PathA, owner |-> Gw(1)],
               [pattern |-> PostA, owner |-> Gw(2)]>>
    /\ mainErr = Nil
    /\ calls = ServingCalls
    /\ listener = "bound"
    /\ wait = <<>>
    /\ srvpc = "accepting"
    /\ ctxDone = FALSE
    /\ reqs = [r \in Workers |-> IdleReq]
    /\ UnitInit

NextServing ==
    \/ \E r \in Workers : Arrive(r)
    \/ \E r \in Workers : HandleHealth(r)
    \/ \E r \in Workers : HandleParse(r)
    \/ \E r \in Workers : HandlePush(r)

SpecServing == ServingInit /\ [][NextServing]_vars

\* ------------------------------------------------------ the XMPP destination
\* A JID, as far as the destination looks at it: the bare address and the
\* resource part. NoJID is the zero value jid.JID{}.
NoJID == [bare |-> "", resource |-> ""]
ClientJID == [bare |-> "test@example.com", resource |-> ""]
UserJID == [bare |-> "foobar@example.com", resource |-> ""]
RoomJID == [bare |-> "somegroup@chat.example.com", resource |-> "alerts"]
Bare(jid) == [jid EXCEPT !.resource = ""]

\* The recipients option as UnmarshalTOML leaves it.
RecipientLists == {<<>>, <<UserJID>>, <<RoomJID, UserJID>>}

\* The goroutines of concurrent requests calling PushMessages.
Callers == {"A", "B"}

\* What is written for one message and one recipient: a group-chat message
\* to the bare JID when the recipient has a resource part.
MessageStanza(jid, content) ==
    IF jid.resource # ""
    THEN [type |-> "groupchat", to |-> Bare(jid), body |-> content]
    ELSE [type |-> "chat", to |-> jid, body |-> content]

Presence(jid) == [type |-> "presence", to |-> jid, body |-> ""]

\* One write on the session, with the caller that made it.
Written(by, stanza) == [by |-> by, stanza |-> stanza]

XMPPInitCheck_JIDOnly(x) ==
    IF x.clientJID = NoJID
    THEN Errorf("empty client JID given in configuration")
    ELSE Nil

\* The first statement of XMPP.Init.
XMPPInitCheck(x) ==
    IF x.clientJID = NoJID
    THEN Errorf("empty client JID given in configuration")
    ELSE IF Len(x.recipientJIDs) = 0
    THEN Errorf("no recipient JIDs given in configuration")
    ELSE Nil

\* XMPP.Init. failAt picks the step that fails: 0 none, 1 dialer.Dial,
\* 2 xmpp.NewClientSession, 3 the initial presence, 3 + k the presence to
\* recipient k. dials counts the connections dialed, sent the stanzas written.
XMPPInit(x, failAt) ==
    LET check == XMPPInitCheck(x)
        n == Len(x.recipientJIDs)
        pres == <<Presence(NoJID)>> \o [k \in 1..n |-> Presence(x.recipientJIDs[k])]
    IN  IF check # Nil THEN [x |-> x, err |-> check, dials |-> 0, sent |-> <<>>]
        ELSE IF failAt \in {1, 2}
        THEN [x |-> x, dials |-> 1, sent |-> <<>>,
              err |-> Wrap("connection to XMPP server failed", Errorf("network error"))]
        ELSE [x |-> [x EXCEPT !.session = "open"], dials |-> 1,
              sent |-> SubSeq(pres, 1, IF failAt = 0 THEN n + 1 ELSE failAt - 3),
              err |-> IF failAt = 0 THEN Nil
                      ELSE IF failAt = 3
                      THEN Wrap("setting initial XMPP presence failed",
                                Errorf("network error"))
                      ELSE Wrap("sending XMPP presence failed", Errorf("network error"))]

IdlePush == [pc |-> "idle", msgs |-> <<>>, i |-> 1, j |-> 1, err |-> Nil]

EncodeResults == {Nil, Errorf("encode error")}

\* A destination as Gateway.UnmarshalTOML has bound and configured it.
InitXMPP ==
    /\ ProgInit
    /\ chain = Background
    /\ secretSet = FALSE
    /\ request = None
    /\ result = None
    /\ registrations = <<>>
    /\ xmpp \in {[pc |-> "new", clientJID |-> j, recipientJIDs |-> rs,
                  session |-> "unset", dials |-> 0, err |-> Nil] :
                    j \in {NoJID, ClientJID}, rs \in RecipientLists}
    /\ stream = <<>>
    /\ push = [c \in Callers |-> IdlePush]
    /\ handled = <<>>

XMPPInitCall ==
    /\ xmpp.pc = "new"
    /\ \E failAt \in 0..(3 + Len(xmpp.recipientJIDs)) :
         LET res == XMPPInit(xmpp, failAt)
         IN  /\ xmpp' = [res.x EXCEPT !.pc = IF res.err = Nil THEN "ready" ELSE "failed",
                                      !.dials = res.dials, !.err = res.err]
             /\ stream' = stream \o [k \in 1..Len(res.sent) |->
                                       Written("Init", res.sent[k])]
    /\ UNCHANGED push
    /\ UNCHANGED packageVars
    /\ UNCHANGED httpVars
    /\ UNCHANGED progVars

\* A request's handler calls PushMessages with the messages of its source.
PushBegin(c) ==
    /\ xmpp.pc = "ready"
    /\ push[c].pc = "idle"
    /\ \E msgs \in MsgSeqs(MaxMsgs) :
         push' = [push EXCEPT ![c] =
                    [@ EXCEPT !.pc = IF msgs = <<>> THEN "done" ELSE "running",
                              !.msgs = msgs]]
    /\ UNCHANGED <<xmpp, stream>>
    /\ UNCHANGED packageVars
    /\ UNCHANGED httpVars
    /\ UNCHANGED progVars

\* A loop that runs over the recipients and, for each, over the messages.
PushAdvance_RecipientsOuter(p, n) ==
    IF p.i < Len(p.msgs) THEN [p EXCEPT !.i = p.i + 1]
    ELSE IF p.j < n THEN [p EXCEPT !.j = p.j + 1, !.i = 1]
    ELSE [p EXCEPT !.pc = "done"]

\* The loop position after the stanza for message i and recipient j of n.
PushAdvance(p, n) ==
    IF p.j < n THEN [p EXCEPT !.j = p.j + 1]
    ELSE IF p.i < Len(p.msgs) THEN [p EXCEPT !.i = p.i + 1, !.j = 1]
    ELSE [p EXCEPT !.pc = "done"]

\* One turn of the inner loop of PushMessages: x.session.Encode writes one
\* whole stanza, or fails and PushMessages returns the error.
PushEncode(c) ==
    /\ push[c].pc = "running"
    /\ \E err \in EncodeResults :
         IF err # Nil
         THEN /\ push' = [push EXCEPT ![c].pc = "done", ![c].err = err]
              /\ UNCHANGED stream
         ELSE /\ stream' = Append(stream,
                    Written(c, MessageStanza(xmpp.recipientJIDs[push[c].j],
                                             push[c].msgs[push[c].i])))
              /\ push' = [push EXCEPT ![c] = PushAdvance(@, Len(xmpp.recipientJIDs))]
    /\ UNCHANGED xmpp
    /\ UNCHANGED packageVars
    /\ UNCHANGED httpVars
    /\ UNCHANGED progVars

NextXMPP ==
    \/ XMPPInitCall
    \/ \E c \in Callers : PushBegin(c)
    \/ \E c \in Callers : PushEncode(c)

SpecXMPP == InitXMPP /\ [][NextXMPP]_vars

\* ------------------------------------------ gateways at the health endpoint
HealthSecret == <<"_", "h", "e", "a", "l", "t", "h">>
GetHealth == GET \o <<" ">> \o HealthPattern

\* Gateway entries whose path or secret lands on or next to the health
\* endpoint, and an entry away from it.
HealthEntries ==
    [path : {Empty, HealthPattern, GetHealth}, secret : {SecretA, HealthSecret},
     source : {"grafana"}, destination : {"xmpp"}]
PlainEntry == [path |-> PathA, secret |-> Empty, source |-> "grafana",
               destination |-> "xmpp"]
HealthConfigs ==
    UNION {{<<e>>, <<e, PlainEntry>>, <<PlainEntry, e>>} : e \in HealthEntries}

\* The program when toml.DecodeFile has returned nil for a configuration
\* with an http section and the gateways of one of HealthConfigs.
HealthInit ==
    /\ pc = "init"
    /\ knownSources = RegisterSource(
            RegisterSource(<< >>, "cloudflare-notifications",
                           "cloudflare-notifications"),
            "grafana", "grafana")
    /\ knownDestinations = RegisterDestination(<< >>, "xmpp", "xmpp")
    /\ handler = TRUE
    /\ conf \in HealthConfigs
    /\ gateway = [i \in 1..Len(conf) |->
                    GatewayUnmarshalTOML(NewGateway, conf[i], knownSources,
                                         knownDestinations).g]
    /\ calls = [k \in 1..(2 * Len(conf)) |->
                  Call(IF k % 2 = 1 THEN "NewSource" ELSE "NewDestination",
                       Gw((k + 1) \div 2), Nil)]
    /\ idx = 0
    /\ mux = <<>>
    /\ mainErr = Nil
    /\ listener = "none"
    /\ wait = <<>>
    /\ srvpc = "none"
    /\ ctxDone = FALSE
    /\ reqs = [r \in Slots |-> IdleReq]
    /\ UnitInit

NextHealth ==
    \/ ServiceInitBegin
    \/ ServiceInitGateway
    \/ ServiceInitHandle
    \/ HTTPInitListen
    \/ ServeBaseContext
    \/ ServeReturns
    \/ ServeSendErr
    \/ HTTPInitRecv
    \/ \E r \in Slots : Arrive(r)
    \/ \E r \in Slots : HandleHealth(r)
    \/ \E r \in Slots : HandleParse(r)
    \/ \E r \in Slots : HandlePush(r)

SpecHealth == HealthInit /\ [][NextHealth]_vars

\* ------------------------------------------------- the transport on its own
\* Patterns HTTP.Handle is called with: the empty one and one without a
\* leading "/" (the mux rejects both), and well-formed ones.
HandlePatterns == {Empty, <<"a">>, PathA, PostA, HealthPattern}
HandleOwners == {Health, Gw(1)}

\* A call of HTTP.Handle on a transport made by NewHTTP.
CallHandle ==
    /\ Len(handled) < MaxCalls
    /\ \E pattern \in HandlePatterns, owner \in HandleOwners :
         LET res == HTTPHandle(mux, pattern, owner)
         IN  /\ mux' = res.mux
             /\ handled' = Append(handled, [pattern |-> pattern, owner |-> owner,
                                            err |-> res.err])
    /\ UNCHANGED <<pc, knownSources, knownDestinations, handler, gateway, conf, idx,
                   mainErr, calls, listener, wait, srvpc, ctxDone, reqs>>
    /\ UNCHANGED packageVars
    /\ UNCHANGED xmppVars

NextHandle == CallHandle

SpecHandle == Init /\ [][NextHandle]_vars

\* ------------------------------------------------------------------ claims
\* Positions in the call log of the calls of op made for gateway i.
CallsOf(op, i) == {k \in 1..Len(calls) : calls[k].op = op /\ calls[k].gw = Gw(i)}
CallsNamed(op) == {k \in 1..Len(calls) : calls[k].op = op}

\* Service.Init was entered and has left its first statement.
InitFailed == pc = "exit" /\ mainErr # Nil /\ mainErr[1] = "Failed to initialize service"
InitReturnedNil == pc \in {"serving", "stopped"}
TransportStarted ==
    \/ CallsNamed("Handler.Init") # {}
    \/ listener # "none"
    \/ srvpc # "none"

\* Gateway i has been initialised and wired: Gateway.Init returned nil after
\* Source.Init and Destination.Init did, and its handler is in the mux.
Wired(i) ==
    /\ gateway[i].source # None
    /\ gateway[i].destination # None
    /\ \E k \in CallsOf("Gateway.Init", i) : calls[k].err = Nil
    /\ \E k \in CallsOf("Source.Init", i) : calls[k].err = Nil
    /\ \E k \in CallsOf("Destination.Init", i) : calls[k].err = Nil
    /\ \E k \in CallsOf("Handle", i) : calls[k].err = Nil
    /\ \E m \in 1..Len(mux) : mux[m].owner = Gw(i) /\ mux[m].pattern = gateway[i].path

\* C1: the transport's Init is invoked only after every configured gateway
\* has completed Gateway.Init successfully and has had its handler
\* registered, so the transport never accepts requests while a configured
\* gateway has an uninitialised adapter or an unregistered handler.
C1_TransportAfterAllGateways ==
    TransportStarted =>
        /\ Len(gateway) = Len(conf)
        /\ \A i \in 1..Len(conf) :
             /\ Wired(i)
             /\ \A t \in CallsNamed("Handler.Init") :
                  \A k \in CallsOf("Gateway.Init", i) \cup CallsOf("Source.Init", i)
                           \cup CallsOf("Destination.Init", i) \cup CallsOf("Handle", i) :
                     k < t

C1_Witness ==
    /\ srvpc = "accepting"
    /\ Len(conf) = 2
    /\ \E r \in Slots : reqs[r].pc = "parsed" /\ reqs[r].owner = Gw(2)

\* C2 as stated: every Gateway.Init is called before any handler is
\* registered with the transport, and the transport is initialised last.
C2_InitBeforeAnyHandler ==
    /\ \A k \in CallsNamed("Handle"), l \in CallsNamed("Gateway.Init") : l < k
    /\ \A t \in CallsNamed("Handler.Init") : t = Len(calls)

\* C2 amended: Gateway.Init is called on a gateway (Source.Init, then
\* Destination.Init) and has returned nil before that gateway's handler is
\* registered, and the transport is initialised last, after Gateway.Init and
\* the handler registration of every configured gateway.
C2_InitBeforeOwnHandler ==
    /\ \A i \in 1..Len(gateway) :
         \A k \in CallsOf("Handle", i) :
            /\ \E l \in CallsOf("Gateway.Init", i) : l < k /\ calls[l].err = Nil
            /\ \E a \in CallsOf("Source.Init", i), b \in CallsOf("Destination.Init", i) :
                 a < b /\ b < k
    /\ \A t \in CallsNamed("Handler.Init") :
         /\ t = Len(calls)
         /\ \A i \in 1..Len(conf) :
              CallsOf("Gateway.Init", i) # {} /\ CallsOf("Handle", i) # {}

C2_Witness ==
    /\ CallsNamed("Handler.Init") # {}
    /\ Len(conf) = 2
    /\ \E k \in CallsOf("Handle", 1), l \in CallsOf("Gateway.Init", 2) : k < l

\* C3: when Gateway.Init or the registration of its handler fails for a
\* gateway, Service.Init returns an error wrapping that failure, calls
\* Gateway.Init on no later gateway and never calls the transport's Init;
\* the process exits without serving.
C3_FailureAbortsStartup ==
    \A k \in 1..Len(calls) :
        (calls[k].op \in {"Gateway.Init", "Handle"} /\ calls[k].err # Nil) =>
            /\ pc = "exit"
            /\ mainErr = Wrap("Failed to initialize service",
                              Wrap(IF calls[k].op = "Gateway.Init"
                                   THEN "failed initializing gateway"
                                   ELSE IF calls[k].gw = Health
                                   THEN "failed setting up request handler for health-checks"
                                   ELSE "failed setting up request handler for gateway",
                                   calls[k].err))
            /\ \A l \in (k + 1)..Len(calls) :
                 /\ calls[l].op \in {"Source.Init", "Destination.Init"}
                 /\ calls[l].gw = calls[k].gw
            /\ ~TransportStarted
            /\ \A r \in Slots : reqs[r].pc = "idle"

C3_Witness ==
    /\ pc = "exit"
    /\ Len(gateway) = 2
    /\ \E k \in CallsOf("Gateway.Init", 1) : calls[k].err # Nil
    /\ gateway[2].source # None /\ gateway[2].destination # None

\* The path a configured entry resolves to: its path, or "/" + secret when
\* the path is empty.
ResolvedPath(e) == IF e.path # Empty THEN e.path ELSE Slash \o e.secret

\* C4: when two gateways of the Service resolve to the same path,
\* Service.Init fails with an error; the second registration never replaces
\* or shadows the first handler.
C4_DuplicatePathFails ==
    /\ \A i, j \in 1..Len(gateway) :
         (i < j /\ ResolvedPath(conf[i]) = ResolvedPath(conf[j])) =>
            /\ ~InitReturnedNil
            /\ ~TransportStarted
            /\ \A k \in CallsOf("Handle", j) : calls[k].err # Nil /\ InitFailed
            /\ \A m \in 1..Len(mux) : mux[m].owner # Gw(j)
    /\ \A m, n \in 1..Len(mux) : m # n => mux[m].pattern # mux[n].pattern

C4_Witness ==
    /\ InitFailed
    /\ Len(gateway) = 2
    /\ conf[1].path = PathA
    /\ conf[2].path = Empty /\ conf[2].secret = SecretA
    /\ \E k \in CallsOf("Handle", 2) : calls[k].err # Nil
    /\ \E m \in 1..Len(mux) : mux[m].pattern = PathA /\ mux[m].owner = Gw(1)

\* Service.Init has been called and is past its first statement.
InitEntered ==
    \/ pc \in {"init_gw", "init_handle", "init_transport", "init_wait", "serving",
               "stopped"}
    \/ InitFailed

\* C5: Service.Init fails with a configuration error when no transport
\* handler is set or no gateway is configured, and then registers no handler
\* (not even the health endpoint), initialises no gateway and does not
\* initialise the transport.
C5_EmptyConfigurationFails ==
    (InitEntered /\ (~handler \/ Len(gateway) = 0)) =>
        /\ pc = "exit"
        /\ mainErr = Wrap("Failed to initialize service",
                          IF ~handler THEN ErrNoHandler ELSE ErrNoGateway)
        /\ \A k \in 1..Len(calls) : calls[k].op \in {"NewSource", "NewDestination"}
        /\ mux = <<>>
        /\ ~TransportStarted

C5_Witness == InitFailed /\ handler /\ Len(gateway) = 0

\* C6: for a gateway whose path and secret are both empty, Gateway.Init
\* fails with a configuration error and calls neither Source.Init nor
\* Destination.Init, whatever source and destination are set.
C6_NoPathNoSecretFails ==
    \A i \in 1..Len(gateway) :
        \A k \in CallsOf("Gateway.Init", i) :
            (conf[i].path = Empty /\ conf[i].secret = Empty) =>
                /\ calls[k].err = ErrNoPathOrSecret
                /\ CallsOf("Source.Init", i) = {}
                /\ CallsOf("Destination.Init", i) = {}
                /\ InitFailed

C6_Witness ==
    \E i \in 1..Len(gateway) :
        /\ CallsOf("Gateway.Init", i) # {}
        /\ conf[i].path = Empty /\ conf[i].secret = Empty
        /\ gateway[i].source # None /\ gateway[i].destination # None

\* C7: after a successful Gateway.Init, the path Gateway.HandleHTTP returns
\* is the configured path when that is non-empty (also when it carries a
\* method prefix, and whatever the secret), and "/" + secret when the
\* configured path is empty.
C7_ResolvedPath ==
    \A i \in 1..Len(gateway) :
        (\E k \in CallsOf("Gateway.Init", i) : calls[k].err = Nil) =>
            /\ conf[i].path # Empty => HandleHTTPPath(gateway[i]) = conf[i].path
            /\ conf[i].path = Empty =>
                 /\ conf[i].secret # Empty
                 /\ HandleHTTPPath(gateway[i]) = Slash \o conf[i].secret
            /\ \A k \in CallsOf("Handle", i) :
                 calls[k].err = Nil =>
                    \E m \in 1..Len(mux) : /\ mux[m].owner = Gw(i)
                                           /\ mux[m].pattern = ResolvedPath(conf[i])

C7_Witness ==
    /\ Len(gateway) = 2
    /\ conf[1].path = PostA /\ conf[1].secret = SecretA
    /\ conf[2].path = Empty /\ conf[2].secret = SecretA
    /\ \E k \in CallsOf("Gateway.Init", 2) : calls[k].err = Nil
    /\ HandleHTTPPath(gateway[1]) = PostA
    /\ HandleHTTPPath(gateway[2]) = PathA

\* C8: Gateway.Init calls Source.Init strictly before Destination.Init; when
\* Source.Init fails, Destination.Init is never called and the error
\* returned is that error annotated as a source failure; when Source.Init
\* succeeds and Destination.Init fails, the error returned is annotated as a
\* destination failure.
C8_SourceBeforeDestination ==
    \A i \in 1..Len(gateway) :
        /\ \A b \in CallsOf("Destination.Init", i) :
             /\ \E a \in CallsOf("Source.Init", i) : a < b /\ calls[a].err = Nil
             /\ calls[b].err # Nil =>
                  \A k \in CallsOf("Gateway.Init", i) :
                     calls[k].err = Wrap("failed initializing destination", calls[b].err)
        /\ \A a \in CallsOf("Source.Init", i) :
             calls[a].err # Nil =>
                /\ CallsOf("Destination.Init", i) = {}
                /\ \A k \in CallsOf("Gateway.Init", i) :
                     calls[k].err = Wrap("failed initializing source", calls[a].err)

C8_Witness ==
    \E i \in 1..Len(gateway) :
        /\ gateway[i].destination # None
        /\ \E a \in CallsOf("Source.Init", i) : calls[a].err # Nil
        /\ InitFailed

\* C9 as stated: with the source or the destination unset, Gateway.Init
\* fails with a configuration error before Init is called on either adapter.
C9_ChecksBeforeAnyInit ==
    \A i \in 1..Len(gateway) :
        \A k \in CallsOf("Gateway.Init", i) :
            (gateway[i].source = None \/ gateway[i].destination = None) =>
                /\ calls[k].err \in {ErrNoPathOrSecret, ErrNoSource, ErrNoDestination}
                /\ CallsOf("Source.Init", i) = {}
                /\ CallsOf("Destination.Init", i) = {}

\* C9 amended: Gateway.Init fails when the source or the destination is
\* unset. An unset source is found before Init is called on either adapter.
\* An unset destination is found only after Source.Init has been called and
\* has returned nil: with a source set, the destination unset and a path or
\* secret given, Gateway.Init calls Source.Init once and Destination.Init
\* never, and fails with the destination configuration error when
\* Source.Init returned nil, with the source failure otherwise.
C9_DestinationCheckedAfterSourceInit ==
    \A i \in 1..Len(gateway) :
        \A k \in CallsOf("Gateway.Init", i) :
            /\ gateway[i].source = None =>
                 /\ calls[k].err \in {ErrNoPathOrSecret, ErrNoSource}
                 /\ CallsOf("Source.Init", i) = {}
                 /\ CallsOf("Destination.Init", i) = {}
            /\ (gateway[i].source # None /\ gateway[i].destination = None) =>
                 /\ CallsOf("Destination.Init", i) = {}
                 /\ IF conf[i].path = Empty /\ conf[i].secret = Empty
                    THEN /\ calls[k].err = ErrNoPathOrSecret
                         /\ CallsOf("Source.Init", i) = {}
                    ELSE /\ Cardinality(CallsOf("Source.Init", i)) = 1
                         /\ \A a \in CallsOf("Source.Init", i) :
                              /\ k < a
                              /\ calls[k].err =
                                   IF calls[a].err = Nil THEN ErrNoDestination
                                   ELSE Wrap("failed initializing source", calls[a].err)

C9_Witness ==
    \E i \in 1..Len(gateway) :
        /\ gateway[i].source # None /\ gateway[i].destination = None
        /\ \E a \in CallsOf("Source.Init", i) : calls[a].err = Nil
        /\ \E k \in CallsOf("Gateway.Init", i) : calls[k].err = ErrNoDestination
        /\ InitFailed

\* C10: for every request a gateway's handler handles, the context of the
\* request given to Source.ParseHTTP and the context given to
\* Destination.PushMessages carry that gateway's configured secret, whatever
\* secret the incoming context carried.
C10_RequestCarriesGatewaySecret ==
    \A r \in Slots :
        \A i \in 1..Len(gateway) :
            reqs[r].owner = Gw(i) =>
                /\ reqs[r].pc \in {"parsed", "done"} =>
                     GetSecret(reqs[r].parseCtx) = conf[i].secret
                /\ reqs[r].npush > 0 =>
                     GetSecret(reqs[r].pushCtx) = conf[i].secret

C10_Witness ==
    \E r \in Slots :
        \E i \in 1..Len(gateway) :
            /\ reqs[r].owner = Gw(i)
            /\ reqs[r].npush = 1
            /\ reqs[r].status = StatusOK
            /\ conf[i].secret = Empty
            /\ reqs[r].pushCtx[1].val = ForeignSecret

\* A request the mux routed to a gateway's handler.
ToGateway(r) == Len(reqs[r].owner) = 2

\* C11: whenever Source.ParseHTTP has returned an error for a request, with
\* or without messages beside it, the handler has answered 400 and has not
\* called Destination.PushMessages for that request.
C11_ParseErrorIsBadRequest ==
    \A r \in Slots :
        (ToGateway(r) /\ reqs[r].nparse > 0 /\ reqs[r].perr # Nil) =>
            /\ reqs[r].pc = "done"
            /\ reqs[r].status = StatusBadRequest
            /\ reqs[r].npush = 0

C11_Witness ==
    \E r \in Slots :
        /\ ToGateway(r)
        /\ reqs[r].nparse = 1
        /\ reqs[r].perr # Nil
        /\ reqs[r].msg # <<>>
        /\ reqs[r].status = StatusBadRequest

\* C12: whenever Source.ParseHTTP has returned no message and no error, the
\* handler has answered 400 and has not called Destination.PushMessages.
C12_EmptyResultIsBadRequest ==
    \A r \in Slots :
        (ToGateway(r) /\ reqs[r].nparse > 0 /\ reqs[r].perr = Nil
                      /\ Len(reqs[r].msg) = 0) =>
            /\ reqs[r].pc = "done"
            /\ reqs[r].status = StatusBadRequest
            /\ reqs[r].npush = 0

C12_Witness ==
    \E r \in Slots :
        /\ ToGateway(r)
        /\ reqs[r].nparse = 1
        /\ reqs[r].perr = Nil
        /\ reqs[r].msg = <<>>
        /\ reqs[r].status = StatusBadRequest

\* C13: whenever Destination.PushMessages has returned an error the handler
\* has answered 400, and nothing is retried: a request the handler has
\* finished saw exactly one call of ParseHTTP and at most one call of
\* PushMessages.
C13_PushErrorIsBadRequestNoRetry ==
    \A r \in Slots :
        ToGateway(r) =>
            /\ (reqs[r].npush > 0 /\ reqs[r].pusherr # Nil) =>
                 reqs[r].pc = "done" /\ reqs[r].status = StatusBadRequest
            /\ reqs[r].nparse <= 1
            /\ reqs[r].npush <= 1
            /\ reqs[r].pc = "done" => reqs[r].nparse = 1

C13_Witness ==
    \E r \in Slots :
        /\ ToGateway(r)
        /\ reqs[r].pc = "done"
        /\ reqs[r].npush = 1
        /\ reqs[r].pusherr # Nil
        /\ reqs[r].status = StatusBadRequest

\* C14: a request for which ParseHTTP returned one or more messages and no
\* error has, once the handler is finished, had PushMessages called exactly
\* once with exactly those messages in that order, and the response is 200
\* if that call returned no error.
C14_PushesExactlyTheParsedMessages ==
    \A r \in Slots :
        (ToGateway(r) /\ reqs[r].nparse > 0 /\ reqs[r].perr = Nil
                      /\ Len(reqs[r].msg) > 0) =>
            /\ reqs[r].pc \in {"parsed", "done"}
            /\ reqs[r].pc = "parsed" => reqs[r].npush = 0
            /\ reqs[r].pc = "done" =>
                 /\ reqs[r].npush = 1
                 /\ reqs[r].pushed = reqs[r].msg
                 /\ reqs[r].pusherr = Nil => reqs[r].status = StatusOK

C14_Witness ==
    \E r \in Slots :
        /\ ToGateway(r)
        /\ reqs[r].pc = "done"
        /\ Len(reqs[r].msg) = 2
        /\ reqs[r].msg[1] # reqs[r].msg[2]
        /\ reqs[r].pushed = reqs[r].msg
        /\ reqs[r].status = StatusOK

\* C15: a request a gateway's handler has finished has status 200 or 400,
\* and 200 exactly when ParseHTTP returned one or more messages and no error
\* and PushMessages was called and returned no error.
C15_StatusIsOKOrBadRequest ==
    \A r \in Slots :
        (ToGateway(r) /\ reqs[r].pc = "done") =>
            /\ reqs[r].status \in {StatusOK, StatusBadRequest}
            /\ reqs[r].status = StatusOK <=>
                 /\ reqs[r].perr = Nil
                 /\ Len(reqs[r].msg) >= 1
                 /\ reqs[r].npush = 1
                 /\ reqs[r].pusherr = Nil

C15_Witness ==
    \E r \in Slots :
        /\ ToGateway(r)
        /\ reqs[r].pc = "done"
        /\ reqs[r].perr = Nil
        /\ Len(reqs[r].msg) = 1
        /\ reqs[r].pusherr = Nil
        /\ reqs[r].status = StatusOK

\* C16: on every context, GetSecret of SetSecret(ctx, s) is s, for every
\* secret s, the empty one included; and GetSecret is the empty string on
\* every context that neither it nor an ancestor of it came from SetSecret.
C16_SecretRoundTrip ==
    /\ \A s \in ChainSecrets : GetSecret(SetSecret(chain, s)) = s
    /\ ~secretSet => GetSecret(chain) = Empty

C16_Witness ==
    /\ Len(chain) = 3
    /\ chain[1] = [key |-> secretKey, val |-> ForeignSecret]
    /\ chain[2] = [key |-> secretKey, val |-> SecretA]
    /\ chain[3].key = foreignKey
    /\ GetSecret(chain) = SecretA
    /\ GetSecret(SetSecret(chain, Empty)) = Empty

\* Two ParseHTTP outcomes with the same messages and the same error.
SameOutcome(a, b) == a.msg = b.msg /\ a.err = b.err

\* C17: when the context of the request carries no secret, or the empty
\* one, what a source's ParseHTTP returns is the same whatever credential
\* header the request carries or lacks: cf-webhook-auth for Cloudflare
\* Notifications, Authorization for Grafana.
C17_NoSecretNoAuthentication ==
    GetSecret(request.ctx) = Empty =>
        /\ result.by = "cloudflare-notifications" =>
             \A h \in CfAuthValues :
                SameOutcome(result, NotificationsParseHTTP([request EXCEPT !.cfAuth = h]))
        /\ result.by = "grafana" =>
             \A h \in AuthorizationValues :
                SameOutcome(result, GrafanaParseHTTP([request EXCEPT !.authorization = h]))

C17_Witness ==
    /\ result.by = "cloudflare-notifications"
    /\ request.ctx = Background
    /\ request.cfAuth = ForeignSecret
    /\ result.err = Nil
    /\ result.msg = <<[Content |-> "x"]>>

\* C18: with a secret in the context, Notifications.ParseHTTP returns its
\* authentication error and no message when cf-webhook-auth is missing or
\* is not the secret, and does so without reading the body; it reads the
\* body only when the header is exactly the secret.
C18_CloudflareAuthenticates ==
    LET secret == GetSecret(request.ctx)
        h == request.cfAuth
    IN  (result.by = "cloudflare-notifications" /\ secret # Empty) =>
            /\ h = Empty =>
                 /\ result.err = Errorf("cf-webhook-auth header not found")
                 /\ result.msg = <<>>
            /\ (h # Empty /\ h # secret) =>
                 /\ result.err = Errorf("invalid authentication token")
                 /\ result.msg = <<>>
            /\ result.read <=> h = secret
            /\ h = secret =>
                 result.err \notin {Errorf("cf-webhook-auth header not found"),
                                    Errorf("invalid authentication token")}

C18_Witness ==
    /\ result.by = "cloudflare-notifications"
    /\ GetSecret(request.ctx) = SecretA
    /\ request.cfAuth = SecretA \o SecretA
    /\ request.body.ok
    /\ request.body.doc.kind = "object"
    /\ result.err = Errorf("invalid authentication token")
    /\ ~result.read

\* C19: past the header check, Notifications.ParseHTTP returns one message
\* whose Content is the payload's text when that text is not empty, an
\* error and no message when the body is no JSON or the text is empty, and
\* never no message with no error.
C19_CloudflareMessages ==
    LET secret == GetSecret(request.ctx)
        u == Unmarshal(request.body.doc)
    IN  (result.by = "cloudflare-notifications"
            /\ (secret = Empty \/ request.cfAuth = secret)) =>
            /\ (request.body.ok /\ u.err = Nil /\ u.payload.Text # "") =>
                 /\ result.msg = <<[Content |-> u.payload.Text]>>
                 /\ result.err = Nil
            /\ (request.body.ok /\ (request.body.doc.kind = "invalid"
                                     \/ u.payload.Text = "")) =>
                 /\ result.msg = <<>>
                 /\ result.err # Nil
            /\ ~(result.msg = <<>> /\ result.err = Nil)
            /\ Len(result.msg) <= 1

C19_Witness ==
    /\ result.by = "cloudflare-notifications"
    /\ GetSecret(request.ctx) = SecretA
    /\ request.cfAuth = SecretA
    /\ "TEXT" \in DOMAIN request.body.doc.fields
    /\ result.msg = <<[Content |-> "x"]>>
    /\ result.err = Nil

\* The positions in the log of the calls of fn for name.
RegistrationsOf(fn, name) ==
    {k \in 1..Len(registrations) :
        registrations[k].fn = fn /\ registrations[k].name = name}

\* known holds for each name what the last call of fn for that name gave,
\* and nothing for a name fn was never called for.
HoldsLast(known, fn) ==
    \A name \in RegistryNames :
        LET ks == RegistrationsOf(fn, name)
        IN  IF ks = {} THEN name \notin DOMAIN known
            ELSE /\ name \in DOMAIN known
                 /\ known[name] = registrations[CHOOSE k \in ks : \A j \in ks : j <= k].ctor

\* C20: after any sequence of RegisterSource and RegisterDestination calls,
\* each registry maps a name to the constructor of the last call made to
\* that registry for that name, whatever was registered in the other
\* registry or under other names.
C20_LastRegistrationWins ==
    /\ HoldsLast(knownSources, "RegisterSource")
    /\ HoldsLast(knownDestinations, "RegisterDestination")

C20_Witness ==
    /\ Len(registrations) = 3
    /\ registrations[1] = [fn |-> "RegisterSource", name |-> "xmpp", ctor |-> "New"]
    /\ registrations[2] = [fn |-> "RegisterDestination", name |-> "xmpp", ctor |-> "New"]
    /\ registrations[3] = [fn |-> "RegisterSource", name |-> "xmpp", ctor |-> "NewOther"]
    /\ knownSources["xmpp"] = "NewOther"
    /\ knownDestinations["xmpp"] = "New"
    /\ "grafana" \notin DOMAIN knownSources

\* The type an entry names for its source (destination) is in no registry.
UnknownSource(e) == e.source \notin DOMAIN knownSources \cup {None}
UnknownDestination(e) == e.destination \notin DOMAIN knownDestinations \cup {None}

\* The error main logs for entry e: the source is looked up first.
UnknownTypeError(e) ==
    Wrap("Failed to load TOML configuration",
         Wrap("failed parsing gateway configuration",
              IF UnknownSource(e) THEN <<"unknown source type", e.source>>
              ELSE <<"unknown destination type", e.destination>>))

\* Entry i stopped the start-up before Service.Init: its gateway was not
\* added, nothing was initialised or registered, the transport is untouched.
StoppedAtEntry(i) ==
    /\ pc = "exit"
    /\ i = Len(conf)
    /\ Len(gateway) = i - 1
    /\ mainErr = UnknownTypeError(conf[i])
    /\ ~InitEntered
    /\ ~TransportStarted
    /\ mux = <<>>
    /\ \A k \in 1..Len(calls) : calls[k].op \in {"NewSource", "NewDestination"}

Matches(i, r) ==
    LET p == ParsePattern(ResolvedPath(conf[i]))
    IN  p.path = reqs[r].path /\ p.method \in {Empty, reqs[r].method}

\* C22: in a Service whose gateways have distinct resolved paths every
\* registration succeeds, and a request invokes the Source.ParseHTTP and the
\* Destination.PushMessages of one gateway only: the one whose pattern
\* matches the request (the pattern naming the method, where two match),
\* with that gateway's secret in the context; no other gateway's source or
\* destination is invoked for it.
C22_DispatchToOwnGateway ==
    /\ \A i \in 1..Len(gateway) :
          \A k \in CallsOf("Handle", i) :
              (\A j \in 1..(i - 1) : ResolvedPath(conf[j]) # ResolvedPath(conf[i])) =>
                  calls[k].err = Nil
    /\ \A r \in Slots :
          /\ reqs[r].nparse = 0 => reqs[r].parsedBy = 0
          /\ reqs[r].npush = 0 => reqs[r].pushedBy = 0
          /\ reqs[r].nparse > 0 =>
               LET i == reqs[r].parsedBy
               IN  /\ i \in 1..Len(gateway)
                   /\ Wired(i)
                   /\ Matches(i, r)
                   /\ \A j \in 1..Len(gateway) \ {i} :
                         Matches(j, r) =>
                             /\ ParsePattern(ResolvedPath(conf[j])).method = Empty
                             /\ ParsePattern(ResolvedPath(conf[i])).method = reqs[r].method
                   /\ GetSecret(reqs[r].parseCtx) = conf[i].secret
                   /\ reqs[r].npush > 0 =>
                        /\ reqs[r].pushedBy = i
                        /\ GetSecret(reqs[r].pushCtx) = conf[i].secret

C22_Witness ==
    /\ Len(gateway) = 2
    /\ Wired(1) /\ Wired(2)
    /\ conf[1].secret = SecretA
    /\ conf[2].secret = Empty
    /\ \E r \in Slots :
          /\ Matches(1, r) /\ Matches(2, r)
          /\ reqs[r].parsedBy = 2
          /\ reqs[r].pushedBy = 2
          /\ GetSecret(reqs[r].pushCtx) = Empty
          /\ reqs[r].status = StatusOK

\* Service.Init is past its configuration check.
PastInitCheck == InitEntered /\ handler /\ Len(gateway) > 0

C24_HealthRegisteredFirst ==
    \A k \in 1..Len(calls) :
        (calls[k].op \in {"Gateway.Init", "Source.Init", "Destination.Init"}
            \/ (calls[k].op = "Handle" /\ calls[k].gw # Health)) =>
            /\ \E h \in 1..(k - 1) : calls[h] = Call("Handle", Health, Nil)
            /\ mux # <<>>
            /\ mux[1].owner = Health

C24_Witness ==
    \E h, k, l \in 1..Len(calls) :
        /\ h < k /\ k < l
        /\ calls[h] = Call("Handle", Health, Nil)
        /\ calls[k].op = "Source.Init" /\ calls[k].gw = Gw(1)
        /\ calls[l] = Call("Handle", Gw(1), Nil)

\* The gateways Gateway.Init was called for, in call order.
InitOrder ==
    LET ks == CallsNamed("Gateway.Init")
        Nth[n \in 1..Cardinality(ks)] ==
            CHOOSE k \in ks : Cardinality({j \in ks : j < k}) = n - 1
    IN  [n \in 1..Cardinality(ks) |-> calls[Nth[n]].gw]

\* C25: Service.Init takes the gateways in the order of the configuration,
\* registers a gateway's handler only after that gateway's Init returned
\* nil, and never registers a handler for a gateway whose Init failed.
C25_ConfigurationOrder ==
    /\ \A i \in 1..Len(gateway) :
          /\ gateway[i].secret = conf[i].secret
          /\ HandleHTTPPath(gateway[i]) \in {conf[i].path, ResolvedPath(conf[i])}
    /\ \A n \in 1..Len(InitOrder) : InitOrder[n] = Gw(n)
    /\ \A i \in 1..Len(gateway) :
          /\ \A k \in CallsOf("Handle", i) :
                /\ \E l \in CallsOf("Gateway.Init", i) : l < k /\ calls[l].err = Nil
                /\ \A j \in 1..(i - 1) :
                      \E l \in CallsOf("Handle", j) : l < k /\ calls[l].err = Nil
          /\ (\E l \in CallsOf("Gateway.Init", i) : calls[l].err # Nil) =>
                /\ CallsOf("Handle", i) = {}
                /\ \A m \in 1..Len(mux) : mux[m].owner # Gw(i)

C25_Witness ==
    /\ Len(gateway) = 2
    /\ conf[1].path = PostA
    /\ conf[2].path = PathA
    /\ InitOrder = <<Gw(1), Gw(2)>>
    /\ \E k \in CallsOf("Handle", 1) : calls[k].err = Nil
    /\ \E l \in CallsOf("Gateway.Init", 2) : calls[l].err # Nil
    /\ Len(mux) = 2

\* A request the server has accepted and whose handler has not returned.
InFlight(r) == reqs[r].pc \in {"dispatched", "parsed"}

\* C26: once the signal has cancelled the context of main and the process
\* has been torn down, no request is left in flight: each one accepted
\* before was run to its response.
C26_InFlightRequestsComplete ==
    pc = "stopped" => \A r \in Slots : ~InFlight(r)

\* The positions of the stream written by PushMessages calls.
Pushed == {k \in 1..Len(stream) : stream[k].by \in Callers}

\* C27: the stanzas one PushMessages call writes to the session are never
\* interleaved with those of a concurrent call: between two stanzas of one
\* caller there is none of another.
C27_PushCallsSerialized ==
    \A i, k \in Pushed :
        (i < k /\ stream[i].by = stream[k].by) =>
            \A j \in Pushed : (i < j /\ j < k) => stream[j].by = stream[i].by

\* The configuration errors of XMPP.Init.
XMPPConfigErrors ==
    {Errorf("empty client JID given in configuration"),
     Errorf("no recipient JIDs given in configuration")}

\* C30: when the client JID is empty or there is no recipient, XMPP.Init
\* returns a configuration error, has dialed no connection, has written
\* nothing and leaves the session unset.
C30_ConfigurationErrorBeforeDial ==
    (xmpp.pc # "new" /\ (xmpp.clientJID = NoJID \/ xmpp.recipientJIDs = <<>>)) =>
        /\ xmpp.pc = "failed"
        /\ xmpp.err \in XMPPConfigErrors
        /\ xmpp.dials = 0
        /\ xmpp.session = "unset"
        /\ stream = <<>>

C30_Witness ==
    /\ xmpp.pc = "failed"
    /\ xmpp.clientJID = ClientJID
    /\ xmpp.recipientJIDs = <<>>
    /\ xmpp.err = Errorf("no recipient JIDs given in configuration")
    /\ xmpp.dials = 0

\* HTTP.Init has returned an error: Service.Init wrapped it and main exited.
TransportFailed ==
    /\ InitFailed
    /\ Len(mainErr) > 1
    /\ mainErr[2] = "failed initializing request handler"

\* C29: when HTTP.Init has returned nil the listener has been bound and Serve
\* has entered its accept loop on it (it may have left it since); when it has
\* returned an error the listener was never bound or Serve has closed it, the
\* server goroutine is not running and no request has been served.
C29_InitWaitsForServe ==
    /\ InitReturnedNil =>
          /\ listener \in {"bound", "closed"}
          /\ srvpc \in {"accepting", "returned", "done"}
    /\ TransportFailed =>
          /\ listener \in {"none", "closed"}
          /\ srvpc \in {"none", "done"}
          /\ \A r \in Slots : reqs[r].pc = "idle"

C29_Witness ==
    /\ TransportFailed
    /\ listener = "closed"
    /\ srvpc = "done"
    /\ mainErr[Len(mainErr)] = "serve error"

\* C28: no step of a request handler changes a field of a Gateway or of the
\* Service, and the step on which a request fails with 400 leaves every
\* other request as it was, its status and pushed messages included.
C28_HandlersLeaveRoutesAlone ==
    [][/\ gateway' = gateway
       /\ conf' = conf
       /\ handler' = handler
       /\ mux' = mux
       /\ \A r \in Workers :
            (reqs'[r].status = StatusBadRequest /\ reqs[r].status # StatusBadRequest) =>
                \A q \in Workers \ {r} : reqs'[q] = reqs[q]]_vars

C28_Witness ==
    /\ gateway = ServingGateways
    /\ reqs[1].status = StatusBadRequest
    /\ reqs[1].owner = Gw(1)
    /\ reqs[2].pc = "done"
    /\ reqs[2].owner = Gw(2)
    /\ reqs[2].status = PushStatus(Nil)
    /\ reqs[2].pushed # <<>>

\* The stanzas caller c has written to the session, in the order written.
StanzasOf(c) ==
    LET ByCaller(e) == e.by = c
        mine == SelectSeq(stream, ByCaller)
    IN  [k \in 1..Len(mine) |-> mine[k].stanza]

\* The k-th stanza of a call with messages msgs: message by message, and
\* for each message recipient by recipient.
ExpectedStanza(msgs, k) ==
    LET n == Len(xmpp.recipientJIDs)
    IN  MessageStanza(xmpp.recipientJIDs[((k - 1) % n) + 1], msgs[((k - 1) \div n) + 1])

C32_WaitChannelNeverBlocks ==
    /\ Len(wait) <= waitCap
    /\ srvpc = "start" => CanSend(wait)
    /\ (srvpc = "returned" /\ Alive) => (CanSend(wait) \/ pc = "init_wait")
    /\ (pc = "init_wait" /\ wait = <<>>) => srvpc \in {"start", "returned"}

\* Both sends have completed: nil was received by HTTP.Init, and the error
\* Serve returned later sits in the buffer.
C32_Witness ==
    /\ pc = "serving"
    /\ srvpc = "done"
    /\ wait = <<Errorf("serve error")>>

\* Service.Init has left its gateway loop behind.
PastGatewayLoop == pc \in {"init_transport", "init_wait", "serving", "stopped"}

\* Entry i of the configuration resolves to the health endpoint's pattern.
AtHealthPattern(i) == ResolvedPath(conf[i]) = HealthPattern

\* C33 as stated: a gateway whose resolved path is the health pattern keeps
\* Service.Init from getting past its gateway loop, and every request to the
\* health path that reaches a handler reaches the health handler.
C33_HealthNeverShadowed ==
    /\ (\E i \in 1..Len(conf) : AtHealthPattern(i)) => ~PastGatewayLoop
    /\ \A r \in Slots :
         (reqs[r].pc # "idle" /\ reqs[r].path = HealthPattern) =>
             reqs[r].owner = Health

\* C33, amended: a gateway whose resolved path is the health pattern keeps
\* Service.Init from getting past its gateway loop; the health handler stays
\* the first entry of the mux and no other entry has its pattern; a request
\* to the health path reaches the health handler unless a gateway is
\* registered at that path with the request's method in front of it.
C33_HealthNeverReplaced ==
    /\ (\E i \in 1..Len(conf) : AtHealthPattern(i)) => ~PastGatewayLoop
    /\ mux # <<>> =>
         /\ mux[1] = [pattern |-> HealthPattern, owner |-> Health]
         /\ \A k \in 2..Len(mux) : mux[k].pattern # HealthPattern
    /\ \A r \in Slots :
         (reqs[r].pc # "idle" /\ reqs[r].path = HealthPattern) =>
             \/ reqs[r].owner = Health
             \/ \E i \in 1..Len(gateway) :
                  /\ reqs[r].owner = Gw(i)
                  /\ gateway[i].path = reqs[r].method \o <<" ">> \o HealthPattern

\* Service.Init has failed on the handler of a gateway that has no path and
\* the secret "_health".
C33_Witness ==
    /\ InitFailed
    /\ idx \in 1..Len(conf)
    /\ conf[idx].path = Empty
    /\ conf[idx].secret = HealthSecret
    /\ mainErr[2] = "failed setting up request handler for gateway"
    /\ \A k \in 1..Len(mux) : mux[k].owner # Gw(idx)

\* Gateway i was decoded from an entry without a source section or without
\* a destination section.
SectionMissing(i) == conf[i].source = None \/ conf[i].destination = None

\* Decoding the configuration has failed.
DecodeFailed ==
    pc = "exit" /\ mainErr # Nil /\ mainErr[1] = "Failed to load TOML configuration"

Rejects(m, pattern) ==
    \/ pattern = Empty
    \/ LET sp == IndexOf(pattern, " ")
       IN  sp = Len(pattern) \/ pattern[sp + 1] # "/"
    \/ \E k \in 1..Len(m) : m[k].pattern = pattern

\* C35: every call of HTTP.Handle returns; for a pattern the mux panics on
\* it returns an error and leaves the mux as it was, and otherwise it
\* returns nil and the mux has the new handler after the ones it had.
C35_HandleRecoversPanics ==
    [][handled' # handled =>
         LET c == handled'[Len(handled')]
         IN  /\ handled' = Append(handled, c)
             /\ Rejects(mux, c.pattern) => (c.err # Nil /\ mux' = mux)
             /\ ~Rejects(mux, c.pattern) =>
                  /\ c.err = Nil
                  /\ mux' = Append(mux, [pattern |-> c.pattern, owner |-> c.owner])]_vars

\* A conflicting and an invalid registration have been refused after a
\* handler was registered, and that handler is still the only one.
C35_Witness ==
    /\ Len(handled) = 3
    /\ handled[1] = [pattern |-> PathA, owner |-> Health, err |-> Nil]
    /\ handled[2].pattern = PathA
    /\ handled[2].owner = Gw(1)
    /\ handled[2].err # Nil
    /\ handled[3].pattern = <<"a">>
    /\ handled[3].err # Nil
    /\ mux = <<[pattern |-> PathA, owner |-> Health]>>

====
